---- MODULE Spec2Model ----
(***************************************************************************)
(* Finite-volume face interpolation of the SOFC sub-models                 *)
(* (idaes/power_generation/unit_models/sofc_submodels.py).                 *)
(*                                                                         *)
(* Coordinates, weights and field values are exact rationals <<n, d>>      *)
(* (d > 0, lowest terms); the arithmetic operators below are applied in    *)
(* the order in which the Python expressions apply them.  A call result    *)
(* records, besides the returned value, which node indices were handed to  *)
(* nodes.at and to phi_func, so that "which nodes are read" is observable. *)
(***************************************************************************)
EXTENDS Integers, Sequences, FiniteSets, TLC

VARIABLES zfaces, znodes, phi, call, ret, blk

vars == <<zfaces, znodes, phi, call, ret, blk>>

(* ------------------------------ bounds --------------------------------- *)
\* face coordinates are multiples of 1/GridN in [0, 1]
GridN == 4
\* largest number of faces of an axis
MaxFaces == 5
\* node values are the integers 0..MaxPhi
MaxPhi == 2

(* ------------------------- rational arithmetic ------------------------- *)
Abs(x) == IF x < 0 THEN -x ELSE x

RECURSIVE GCD(_, _)
GCD(a, b) == IF b = 0 THEN a ELSE GCD(b, a % b)

Rat(n, d) ==
    LET g == GCD(Abs(n), Abs(d))
        s == IF d < 0 THEN -1 ELSE 1
    IN  <<(s * n) \div g, (s * d) \div g>>

RInt(n) == <<n, 1>>
RAdd(a, b) == Rat(a[1] * b[2] + b[1] * a[2], a[2] * b[2])
RSub(a, b) == Rat(a[1] * b[2] - b[1] * a[2], a[2] * b[2])
RMul(a, b) == Rat(a[1] * b[1], a[2] * b[2])
RDiv(a, b) == Rat(a[1] * b[2], a[2] * b[1])
RLe(a, b) == a[1] * b[2] <= b[1] * a[2]
RLt(a, b) == a[1] * b[2] < b[1] * a[2]
RZero == RInt(0)
ROne == RInt(1)

(* ------------------------------ enums ---------------------------------- *)
CV_Interpolation == {"UDS", "CDS", "QUICK"}

\* the single member of CV_Bound
EXTRAPOLATE == [cls |-> "CV_Bound", v |-> RInt(1)]

\* a boundary expression that is not a CV_Bound
Literal(r) == [cls |-> "expr", v |-> r]

\* isinstance(b, CV_Bound)
IsCVBound_neg(b) == b.cls # "CV_Bound"
IsCVBound(b) == b.cls = "CV_Bound"

(* --------------------------- pyomo ordered set ------------------------- *)
\* Set.first(), Set.last()
First(s) == s[1]
Last(s) == s[Len(s)]

\* Set.at(i): 1-based, negative positions count from the end, 0 and
\* positions beyond the length raise IndexError
ValidAt(s, i) == (i >= 1 /\ i <= Len(s)) \/ (i < 0 /\ i + Len(s) >= 0)
At(s, i) == IF i >= 1 THEN s[i] ELSE s[i + Len(s) + 1]

(* ------------------------- axis construction --------------------------- *)
\* znodes: midpoints of consecutive faces
BuildNodes_left(faces) == [i \in 1 .. (Len(faces) - 1) |-> At(faces, i)]
BuildNodes(faces) ==
    [i \in 1 .. (Len(faces) - 1) |->
        RDiv(RAdd(At(faces, i), At(faces, i + 1)), RInt(2))]

\* izfaces = 1..len(zfaces), as an ordered set
IFaces(faces) == [i \in 1 .. Len(faces) |-> i]

(* ----------------------------- call results ---------------------------- *)
NoVal == <<>>

ErrMsg2D == <<"SOFC/SOEC", "sections", "modeled", "in", "2D", "do", "not",
              "have", "bulk", "flow,", "so", "currently", "only", "CDS",
              "interpolation", "is", "supported">>

Result(kind, val, src, at, reads, w, refs) ==
    [kind |-> kind, val |-> val, src |-> src, at |-> at, reads |-> reads,
     w |-> w, refs |-> refs, msg |-> <<>>]

NoResult == Result("none", NoVal, "-", {}, {}, <<>>, <<>>)

(* ------------------------ _interpolate_channel ------------------------- *)
\* adjacent node upstream of the face
Izu_noflip(iz, oposite_flow) == iz - 1
Izu(iz, oposite_flow) == IF ~oposite_flow THEN iz - 1 ELSE iz

\* node upstream adjacent to the node upstream adjacent to the face
Izuu_near(iz, oposite_flow) == IF ~oposite_flow THEN iz - 1 ELSE iz
Izuu(iz, oposite_flow) == IF ~oposite_flow THEN iz - 2 ELSE iz + 1

\* downstream node adjacent to the face
Izd_noflip(iz, oposite_flow) == iz
Izd(iz, oposite_flow) == IF ~oposite_flow THEN iz ELSE iz - 1

\* the two early returns of phi_inlet
IsInletFace_first(iz, ifaces, oposite_flow) == iz = First(ifaces)
IsInletFace(iz, ifaces, oposite_flow) ==
    \/ (iz = First(ifaces) /\ ~oposite_flow)
    \/ (iz = Last(ifaces) /\ oposite_flow)

\* the face at which CDS replaces izd by izuu
IsOutletFace(iz, ifaces, oposite_flow) ==
    \/ (oposite_flow /\ iz = First(ifaces))
    \/ (~oposite_flow /\ iz = Last(ifaces))

\* lambf = (zd - zf) / (zd - zu)
Lambf_skew(zd, zf, zu) == RDiv(RSub(zd, zf), RSub(zf, zu))
Lambf(zd, zf, zu) == RDiv(RSub(zd, zf), RSub(zd, zu))

\* the weights of phi_func(u) and phi_func(d) in the returned expression
Weights(lambf) == <<RSub(ROne, lambf), lambf>>

\* (1 - lambf) * phi_func(u) + lambf * phi_func(d)
Blend(lambf, pu, pd) ==
    RAdd(RMul(Weights(lambf)[1], pu), RMul(Weights(lambf)[2], pd))

\* the CDS branch, shared line by line by both interpolators: u and d are
\* the node indices, f the face index
CDSValue_limited(u, d, f, nodes, faces, phi_func) ==
    IF /\ ValidAt(nodes, u) /\ ValidAt(nodes, d) /\ ValidAt(faces, f)
       /\ u \in DOMAIN phi_func /\ d \in DOMAIN phi_func
       /\ At(nodes, d) # At(nodes, u)
    THEN IF RLt(phi_func[d], phi_func[u])
         THEN Result("value", phi_func[u], "node", {u, d}, {u}, <<>>,
                     <<u, d>>)
         ELSE LET lambf == Lambf(At(nodes, d), At(faces, f), At(nodes, u))
              IN  Result("value", Blend(lambf, phi_func[u], phi_func[d]),
                         "blend", {u, d}, {u, d}, Weights(lambf), <<u, d>>)
    ELSE Result("IndexError", NoVal, "-", {u, d}, {}, <<>>, <<u, d>>)
CDSValue(u, d, f, nodes, faces, phi_func) ==
    IF ~ValidAt(nodes, u)
    THEN Result("IndexError", NoVal, "-", {u}, {}, <<>>, <<u, d>>)
    ELSE IF ~ValidAt(nodes, d)
    THEN Result("IndexError", NoVal, "-", {u, d}, {}, <<>>, <<u, d>>)
    ELSE IF ~ValidAt(faces, f)
    THEN Result("IndexError", NoVal, "-", {u, d}, {}, <<>>, <<u, d>>)
    ELSE IF At(nodes, d) = At(nodes, u)
    THEN Result("ZeroDivisionError", NoVal, "-", {u, d}, {}, <<>>, <<u, d>>)
    ELSE LET lambf == Lambf(At(nodes, d), At(faces, f), At(nodes, u))
         IN  IF u \notin DOMAIN phi_func
             THEN Result("KeyError", NoVal, "-", {u, d}, {u},
                         Weights(lambf), <<u, d>>)
             ELSE IF d \notin DOMAIN phi_func
             THEN Result("KeyError", NoVal, "-", {u, d}, {u, d},
                         Weights(lambf), <<u, d>>)
             ELSE Result("value", Blend(lambf, phi_func[u], phi_func[d]),
                         "blend", {u, d}, {u, d}, Weights(lambf), <<u, d>>)

InterpolateChannel(iz, ifaces, nodes, faces, phi_func, phi_inlet, method, oposite_flow) ==
    LET izu == Izu(iz, oposite_flow)
        izuu == Izuu(iz, oposite_flow)
        izd == IF IsOutletFace(iz, ifaces, oposite_flow)
               THEN izuu ELSE Izd(iz, oposite_flow)
    IN  IF IsInletFace(iz, ifaces, oposite_flow)
        THEN Result("value", phi_inlet, "phi_inlet", {}, {}, <<>>, <<>>)
        ELSE IF method = "UDS"
        THEN IF izu \in DOMAIN phi_func
             THEN Result("value", phi_func[izu], "node", {}, {izu}, <<>>,
                         <<izu>>)
             ELSE Result("KeyError", NoVal, "-", {}, {izu}, <<>>, <<izu>>)
        ELSE IF method = "CDS"
        THEN CDSValue(izu, izd, iz, nodes, faces, phi_func)
        ELSE Result("None", NoVal, "-", {}, {}, <<>>, <<>>)

(* --------------------------- _interpolate_2D --------------------------- *)
\* the guard of the RuntimeError
MethodRejected2D_quick(method) == method = "QUICK"
MethodRejected2D(method) == method # "CDS"

\* icu: ic - 1, moved to ic + 1 at the first face
Icu2D_far(ic, ifaces) == IF ic = First(ifaces) THEN ic + 2 ELSE ic - 1
Icu2D(ic, ifaces) == IF ic = First(ifaces) THEN ic + 1 ELSE ic - 1

\* icd: ic, moved to ic - 2 at the last face
Icd2D_near(ic, ifaces) == IF ic = Last(ifaces) THEN ic - 1 ELSE ic
Icd2D(ic, ifaces) == IF ic = Last(ifaces) THEN ic - 2 ELSE ic

\* (phi_func(icd) - phi_func(icu)) / (cd - cu)
Slope_swapped(pu, pd, cu, cd) == RDiv(RSub(pu, pd), RSub(cd, cu))
Slope(pu, pd, cu, cd) == RDiv(RSub(pd, pu), RSub(cd, cu))

\* the derivative branch
CDSDerivative(u, d, nodes, phi_func) ==
    IF ~ValidAt(nodes, u)
    THEN Result("IndexError", NoVal, "-", {u}, {}, <<>>, <<u, d>>)
    ELSE IF ~ValidAt(nodes, d)
    THEN Result("IndexError", NoVal, "-", {u, d}, {}, <<>>, <<u, d>>)
    ELSE IF d \notin DOMAIN phi_func
    THEN Result("KeyError", NoVal, "-", {u, d}, {d}, <<>>, <<u, d>>)
    ELSE IF u \notin DOMAIN phi_func
    THEN Result("KeyError", NoVal, "-", {u, d}, {u, d}, <<>>, <<u, d>>)
    ELSE IF At(nodes, d) = At(nodes, u)
    THEN Result("ZeroDivisionError", NoVal, "-", {u, d}, {u, d}, <<>>,
                <<u, d>>)
    ELSE Result("value",
                Slope(phi_func[u], phi_func[d], At(nodes, u), At(nodes, d)),
                "slope", {u, d}, {u, d}, <<>>, <<u, d>>)

Interpolate2D_slopefirst(ic, ifaces, nodes, faces, phi_func, phi_bound_0, phi_bound_1, derivative, method) ==
    IF MethodRejected2D(method)
    THEN [Result("RuntimeError", NoVal, "-", {}, {}, <<>>, <<>>)
            EXCEPT !.msg = ErrMsg2D]
    ELSE IF ~derivative /\ ic = First(ifaces) /\ ~IsCVBound(phi_bound_0)
    THEN Result("value", phi_bound_0.v, "phi_bound_0", {}, {}, <<>>, <<>>)
    ELSE IF ~derivative /\ ic = Last(ifaces) /\ ~IsCVBound(phi_bound_1)
    THEN Result("value", phi_bound_1.v, "phi_bound_1", {}, {}, <<>>, <<>>)
    ELSE LET icu == IF ic = First(ifaces) THEN ic + 1 ELSE ic - 1
             icd == IF ic = Last(ifaces) THEN ic - 2 ELSE ic
         IN  IF ~derivative
             THEN CDSValue(icu, icd, ic, nodes, faces, phi_func)
             ELSE CDSDerivative(icu, icd, nodes, phi_func)
Interpolate2D(ic, ifaces, nodes, faces, phi_func, phi_bound_0, phi_bound_1, derivative, method) ==
    IF MethodRejected2D(method)
    THEN [Result("RuntimeError", NoVal, "-", {}, {}, <<>>, <<>>)
            EXCEPT !.msg = ErrMsg2D]
    ELSE IF ic = First(ifaces) /\ ~IsCVBound(phi_bound_0)
    THEN Result("value", phi_bound_0.v, "phi_bound_0", {}, {}, <<>>, <<>>)
    ELSE IF ic = Last(ifaces) /\ ~IsCVBound(phi_bound_1)
    THEN Result("value", phi_bound_1.v, "phi_bound_1", {}, {}, <<>>, <<>>)
    ELSE LET icu == Icu2D(ic, ifaces)
             icd == Icd2D(ic, ifaces)
         IN  IF ~derivative
             THEN CDSValue(icu, icd, ic, nodes, faces, phi_func)
             ELSE CDSDerivative(icu, icd, nodes, phi_func)

(* ------------------------- SofcChannelData.build ----------------------- *)
\* pyo.Set(initialize=list): insertion order, a repeated element is dropped
RECURSIVE SetInit(_)
SetInit(s) ==
    IF s = <<>> THEN <<>>
    ELSE LET h == SetInit(SubSeq(s, 1, Len(s) - 1))
             x == s[Len(s)]
         IN  IF x \in {h[i] : i \in DOMAIN h} THEN h ELSE Append(h, x)

\* iznodes = 1..len(znodes), as an ordered set
INodes(nodes) == [i \in 1 .. Len(nodes) |-> i]

\* dz[iz] = zfaces.at(iz + 1) - zfaces.at(iz)
Dz(faces, iz) == RSub(At(faces, iz + 1), At(faces, iz))

\* the call raised
Raises(r) ==
    r.kind \in {"RuntimeError", "IndexError", "KeyError", "ZeroDivisionError"}

\* the variables indexed by iznodes that the face expressions read
NodeVars(nodes) == [i \in 1 .. Len(nodes) |-> RZero]

\* the sets built from cv_zfaces, the face expressions (zflux, zflux_enth,
\* pressure_face) evaluated for every face in index order, then the outlet
\* indices taken with iznodes.first() / iznodes.last()
BuildChannel(cv_zfaces, method, oposite_flow) ==
    LET faces == SetInit(cv_zfaces)
        nodes == SetInit(BuildNodes(faces))
        face(iz) == InterpolateChannel(iz, IFaces(faces), nodes, faces,
                                       NodeVars(nodes), RZero, method,
                                       oposite_flow)
        failing == {iz \in 1 .. Len(faces) : Raises(face(iz))}
        kind == IF failing # {}
                THEN face(CHOOSE iz \in failing :
                             \A j \in failing : iz <= j).kind
                ELSE IF Len(nodes) = 0 THEN "IndexError"
                ELSE "built"
    IN  [kind |-> kind, zfaces |-> faces, znodes |-> nodes]

(* ------------------------------ inputs --------------------------------- *)
\* strictly increasing face coordinates from 0 to 1 on the 1/GridN grid
Increasing(s) == \A i \in 1 .. (Len(s) - 1) : s[i] < s[i + 1]

Axes ==
    LET Ks == UNION {[1 .. n -> 0 .. GridN] : n \in 2 .. MaxFaces}
    IN  {[i \in 1 .. Len(k) |-> Rat(k[i], GridN)] :
            k \in {s \in Ks : /\ Increasing(s)
                              /\ s[1] = 0
                              /\ s[Len(s)] = GridN}}

Fields(n) == [1 .. n -> {RInt(v) : v \in 0 .. MaxPhi}]

InletValues == {RInt(-1), RInt(5)}
BoundValues == {EXTRAPOLATE, Literal(RInt(-3)), Literal(RInt(7))}

\* face indices handed to the interpolators: the faces and one position
\* beyond each end
FaceArgs(faces) == 0 .. (Len(faces) + 1)

NoCall == [fn |-> "none"]

\* no variable of the block has been given a value or fixed by a caller
NoBlock == [unit |-> "none"]

(* --------------------------- state machine ----------------------------- *)
Init ==
    /\ zfaces \in Axes
    /\ znodes = BuildNodes(zfaces)
    /\ phi \in Fields(Len(zfaces) - 1)
    /\ call = NoCall
    /\ ret = NoResult
    /\ blk = NoBlock

\* a caller (an Expression rule of a build method) evaluates one face
CallInterpolateChannel_inplace ==
    /\ call = NoCall
    /\ \E iz \in FaceArgs(zfaces), phi_inlet \in InletValues,
       method \in CV_Interpolation, oposite_flow \in BOOLEAN :
        LET r == InterpolateChannel(iz, IFaces(zfaces), znodes, zfaces, phi,
                                    phi_inlet, method, oposite_flow)
        IN  /\ call' = [fn |-> "_interpolate_channel", iz |-> iz,
                        phi_inlet |-> phi_inlet, method |-> method,
                        oposite_flow |-> oposite_flow]
            /\ ret' = r
            /\ phi' = IF r.src = "blend"
                      THEN [phi EXCEPT ![r.refs[1]] = r.val]
                      ELSE phi
            /\ UNCHANGED <<zfaces, znodes, blk>>
CallInterpolateChannel ==
    /\ call = NoCall
    /\ \E iz \in FaceArgs(zfaces), phi_inlet \in InletValues,
       method \in CV_Interpolation, oposite_flow \in BOOLEAN :
        /\ call' = [fn |-> "_interpolate_channel", iz |-> iz,
                    phi_inlet |-> phi_inlet, method |-> method,
                    oposite_flow |-> oposite_flow]
        /\ ret' = InterpolateChannel(iz, IFaces(zfaces), znodes, zfaces, phi,
                                     phi_inlet, method, oposite_flow)
        /\ UNCHANGED <<zfaces, znodes, phi, blk>>

CallInterpolate2D ==
    /\ call = NoCall
    /\ \E ic \in FaceArgs(zfaces), phi_bound_0 \in BoundValues,
       phi_bound_1 \in BoundValues, derivative \in BOOLEAN,
       method \in CV_Interpolation :
        /\ call' = [fn |-> "_interpolate_2D", ic |-> ic,
                    phi_bound_0 |-> phi_bound_0, phi_bound_1 |-> phi_bound_1,
                    derivative |-> derivative, method |-> method]
        /\ ret' = Interpolate2D(ic, IFaces(zfaces), znodes, zfaces, phi,
                                phi_bound_0, phi_bound_1, derivative, method)
        /\ UNCHANGED <<zfaces, znodes, phi, blk>>

\* the caller takes the returned expression (or the exception propagates)
\* and the next face is evaluated
Return ==
    /\ call # NoCall
    /\ call' = NoCall
    /\ ret' = NoResult
    /\ UNCHANGED <<zfaces, znodes, phi, blk>>

Next == CallInterpolateChannel \/ CallInterpolate2D \/ Return

Spec == Init /\ [][Next]_vars

(* ------------------- construction from a configuration ---------------- *)
\* cv_zfaces as a caller may pass it: any list of grid coordinates
Configs ==
    UNION {[1 .. n -> {Rat(k, GridN) : k \in 0 .. GridN}] :
              n \in 0 .. MaxFaces}

\* the schemes a channel is built with (QUICK has no branch to build from)
BuildSchemes == {"UDS", "CDS"}

InitBuild ==
    /\ zfaces = <<>>
    /\ znodes = <<>>
    /\ phi = <<>>
    /\ call = NoCall
    /\ ret = NoResult
    /\ blk = NoBlock

\* SofcChannelData.build on a fresh block
Build ==
    /\ call = NoCall
    /\ zfaces = <<>>
    /\ \E cv_zfaces \in Configs, method \in BuildSchemes,
          oposite_flow \in BOOLEAN :
        LET b == BuildChannel(cv_zfaces, method, oposite_flow)
        IN  /\ call' = [fn |-> "build", cv_zfaces |-> cv_zfaces,
                        method |-> method, oposite_flow |-> oposite_flow]
            /\ zfaces' = b.zfaces
            /\ znodes' = b.znodes
            /\ ret' = Result(b.kind, NoVal, "-", {}, {}, <<>>, <<>>)
            /\ UNCHANGED <<phi, blk>>

NextBuild == Build \/ Return

SpecBuild == InitBuild /\ [][NextBuild]_vars

(* ------------------------ the documented scenarios --------------------- *)
\* faces [0.0, 0.25, 0.5, 0.75, 1.0]
ScenarioFaces == <<Rat(0, 4), Rat(1, 4), Rat(2, 4), Rat(3, 4), Rat(4, 4)>>

\* node values [10, 20, 30, 40]
ScenarioField == <<RInt(10), RInt(20), RInt(30), RInt(40)>>

\* node values 100 and 120 at the first two nodes, any of a few at the rest
ScenarioFields ==
    {ScenarioField} \cup
    {<<RInt(100), RInt(120), a, b>> : a, b \in {RInt(0), RInt(140)}}

InitScenario ==
    /\ zfaces = ScenarioFaces
    /\ znodes = BuildNodes(zfaces)
    /\ phi \in ScenarioFields
    /\ call = NoCall
    /\ ret = NoResult
    /\ blk = NoBlock

SpecScenario == InitScenario /\ [][Next]_vars

(* ------------------------- vocabulary of claims ------------------------ *)
NFaces == Len(zfaces)
IsChannelCall == call.fn = "_interpolate_channel"
Is2DCall == call.fn = "_interpolate_2D"

\* the face of the last channel call is the domain inlet face
AtInlet ==
    \/ (~call.oposite_flow /\ call.iz = 1)
    \/ (call.oposite_flow /\ call.iz = NFaces)

\* the face index of the last call is a face that has a node on either side
ChannelInterior == call.iz > 1 /\ call.iz < NFaces
Interior2D == call.ic > 1 /\ call.ic < NFaces

\* the last 2-D call passed the scheme check and did not return a literal
Computed2D ==
    /\ Is2DCall
    /\ call.method = "CDS"
    /\ call.ic \in 1 .. NFaces
    /\ ~(call.ic = 1 /\ call.phi_bound_0.cls = "expr")
    /\ ~(call.ic = NFaces /\ call.phi_bound_1.cls = "expr")

\* value at coordinate z of the straight line through (za, pa) and (zb, pb)
LineAt(za, pa, zb, pb, z) ==
    RAdd(pa, RDiv(RMul(RSub(pb, pa), RSub(z, za)), RSub(zb, za)))

RMin(a, b) == IF RLe(a, b) THEN a ELSE b
RMax(a, b) == IF RLe(a, b) THEN b ELSE a

Range(s) == {s[i] : i \in DOMAIN s}

ErrorKinds == {"RuntimeError", "IndexError", "KeyError", "ZeroDivisionError"}

(* -------------------------------- C1 ----------------------------------- *)
\* C1: at the domain inlet face (first face for positive flow, last face for
\* opposite flow) _interpolate_channel returns exactly phi_inlet for UDS, CDS
\* and QUICK alike, and no node coordinate or node value is read.
C1_InletReturnsPhiInlet ==
    (IsChannelCall /\ AtInlet) =>
        /\ ret.kind = "value"
        /\ ret.val = call.phi_inlet
        /\ ret.src = "phi_inlet"
        /\ ret.reads = {}
        /\ ret.at = {}

\* C1 witness: opposite flow, QUICK, last face of an axis with several nodes
C1_Witness ==
    /\ IsChannelCall
    /\ call.oposite_flow
    /\ call.method = "QUICK"
    /\ NFaces >= 3
    /\ call.iz = NFaces
    /\ ret.val = call.phi_inlet
    /\ call.phi_inlet \notin Range(phi)

(* -------------------------------- C2 ----------------------------------- *)
\* C2: with UDS, at every face that is not the inlet face the result is the
\* value of the upstream node alone: phi(f-1) for positive flow, phi(f) for
\* opposite flow; no weights are applied and no other node is read.
C2_UpwindReturnsUpstreamNode ==
    (IsChannelCall /\ call.method = "UDS" /\ call.iz \in 1 .. NFaces
        /\ ~AtInlet) =>
        LET u == IF call.oposite_flow THEN call.iz ELSE call.iz - 1
        IN  /\ ret.kind = "value"
            /\ ret.val = phi[u]
            /\ ret.reads = {u}
            /\ ret.at = {}
            /\ ret.w = <<>>

\* C2 witness: opposite flow at the first (outlet) face, where the upstream
\* node is node 1 and its neighbour holds a different value
C2_Witness ==
    /\ IsChannelCall
    /\ call.method = "UDS"
    /\ call.oposite_flow
    /\ call.iz = 1
    /\ NFaces >= 3
    /\ phi[1] # phi[2]
    /\ ret.val = phi[1]

(* -------------------------------- C3 ----------------------------------- *)
\* C3: with CDS, at every interior face f the value returned by
\* _interpolate_channel, and by _interpolate_2D in value mode, is the value at
\* the face coordinate of the straight line through the two adjacent nodes
\* (z(f-1), phi(f-1)) and (z(f), phi(f)), on uniform and non-uniform axes.
C3_CentralIsLinearInterpolation ==
    ((\/ (IsChannelCall /\ call.method = "CDS" /\ ChannelInterior)
      \/ (Is2DCall /\ call.method = "CDS" /\ ~call.derivative /\ Interior2D))
    ) =>
        LET f == IF IsChannelCall THEN call.iz ELSE call.ic
        IN  /\ ret.kind = "value"
            /\ ret.val = LineAt(znodes[f - 1], phi[f - 1], znodes[f], phi[f],
                                zfaces[f])

(* -------------------------------- C4 ----------------------------------- *)
\* C4: with CDS in value mode, at every interior face the two weights
\* (1 - lambf) and lambf sum to 1 and each lies in [0, 1], and the returned
\* value lies between the values of the two adjacent nodes.
C4_CentralWeightsConvex ==
    ((\/ (IsChannelCall /\ call.method = "CDS" /\ ChannelInterior)
      \/ (Is2DCall /\ call.method = "CDS" /\ ~call.derivative /\ Interior2D))
    ) =>
        LET f == IF IsChannelCall THEN call.iz ELSE call.ic
        IN  /\ ret.kind = "value"
            /\ Len(ret.w) = 2
            /\ RAdd(ret.w[1], ret.w[2]) = ROne
            /\ \A i \in 1 .. 2 : RLe(RZero, ret.w[i]) /\ RLe(ret.w[i], ROne)
            /\ ret.reads = {f - 1, f}
            /\ RLe(RMin(phi[f - 1], phi[f]), ret.val)
            /\ RLe(ret.val, RMax(phi[f - 1], phi[f]))

\* C4 witness: an interior face between two cells of different width and
\* two different node values, so the weights are unequal and both matter
C4_Witness ==
    /\ Is2DCall
    /\ call.method = "CDS"
    /\ ~call.derivative
    /\ Interior2D
    /\ ret.kind = "value"
    /\ ret.w[1] # ret.w[2]
    /\ phi[call.ic - 1] # phi[call.ic]
    /\ RLt(RMin(phi[call.ic - 1], phi[call.ic]), ret.val)
    /\ RLt(ret.val, RMax(phi[call.ic - 1], phi[call.ic]))

(* -------------------------------- C5 ----------------------------------- *)
\* C5: selecting QUICK for _interpolate_channel raises an error at every
\* face; the call never returns a value and never returns nothing.
C5_QuickRaises ==
    (IsChannelCall /\ call.method = "QUICK" /\ call.iz \in 1 .. NFaces) =>
        ret.kind \in ErrorKinds

(* -------------------------------- C6 ----------------------------------- *)
\* C6: _interpolate_2D with a method other than CDS raises its error at call
\* time for every face index, every pair of boundary specifiers and both
\* modes, before any boundary literal is returned or any node is read.
C6_2DRejectsOtherSchemes ==
    (Is2DCall /\ call.method # "CDS") =>
        /\ ret.kind = "RuntimeError"
        /\ ret.val = NoVal
        /\ ret.reads = {}
        /\ ret.at = {}

\* C6 witness: UDS at the first face with a literal lower bound, in
\* derivative mode, is rejected
C6_Witness ==
    /\ Is2DCall
    /\ call.method = "UDS"
    /\ call.ic = 1
    /\ call.phi_bound_0.cls = "expr"
    /\ call.derivative
    /\ ret.kind = "RuntimeError"

(* -------------------------------- C7 ----------------------------------- *)
\* C7: the error raised by _interpolate_2D for an unsupported scheme names
\* the scheme that was passed, so the errors for UDS and QUICK differ.
C7_ErrorNamesScheme ==
    (Is2DCall /\ ret.kind = "RuntimeError") => call.method \in Range(ret.msg)

(* -------------------------------- C8 ----------------------------------- *)
\* C8: _interpolate_2D with CDS in value mode returns a literal phi_bound_0
\* unchanged at the first face and a literal phi_bound_1 unchanged at the
\* last face, whatever the node values are.
C8_LiteralBoundReturned ==
    (Is2DCall /\ call.method = "CDS" /\ ~call.derivative) =>
        /\ (call.ic = 1 /\ call.phi_bound_0.cls = "expr") =>
              /\ ret.kind = "value"
              /\ ret.val = call.phi_bound_0.v
              /\ ret.src = "phi_bound_0"
              /\ ret.reads = {}
        /\ (call.ic = NFaces /\ call.phi_bound_1.cls = "expr") =>
              /\ ret.kind = "value"
              /\ ret.val = call.phi_bound_1.v
              /\ ret.src = "phi_bound_1"
              /\ ret.reads = {}

\* C8 witness: the last face with a literal upper bound that differs from
\* the lower bound and from every node value
C8_Witness ==
    /\ Is2DCall
    /\ call.method = "CDS"
    /\ ~call.derivative
    /\ call.ic = NFaces
    /\ call.phi_bound_1.cls = "expr"
    /\ call.phi_bound_0.cls = "expr"
    /\ call.phi_bound_0 # call.phi_bound_1
    /\ ret.val = call.phi_bound_1.v
    /\ ret.val \notin Range(phi)

(* -------------------------------- C9 ----------------------------------- *)
\* C9: whenever _interpolate_2D computes from nodes, its two reference nodes
\* are f-1 and f at an interior face, f and f+1 at the first face (lower bound
\* EXTRAPOLATE), f-2 and f-1 at the last face (upper bound EXTRAPOLATE); no
\* other node index is handed to nodes.at or phi_func, and a call that
\* returns a computed value has read exactly these two nodes.
RefNodes2D(f) ==
    IF f = 1 THEN {f, f + 1}
    ELSE IF f = NFaces THEN {f - 2, f - 1}
    ELSE {f - 1, f}

C9_2DReferenceNodes ==
    Computed2D =>
        /\ Range(ret.refs) = RefNodes2D(call.ic)
        /\ ret.at \subseteq RefNodes2D(call.ic)
        /\ ret.reads \subseteq RefNodes2D(call.ic)
        /\ ret.kind = "value" =>
              /\ ret.at = RefNodes2D(call.ic)
              /\ ret.reads = RefNodes2D(call.ic)

\* C9 witness: the first face with EXTRAPOLATE on an axis with three or more
\* nodes, where nodes 1 and 2 (and not node 3) are read
C9_Witness ==
    /\ Computed2D
    /\ call.ic = 1
    /\ NFaces >= 4
    /\ ret.kind = "value"
    /\ ret.reads = {1, 2}

(* -------------------------------- C10 ---------------------------------- *)
\* C10: in derivative mode, whenever _interpolate_2D computes from nodes
\* (interior faces and both extrapolated boundary faces), the result is the
\* finite-difference slope of its two reference nodes taken in increasing
\* coordinate order, (phi(hi) - phi(lo)) / (z(hi) - z(lo)); on an axis with at
\* least two nodes such a call always returns this value.
C10_DerivativeIsSlope ==
    (Computed2D /\ call.derivative) =>
        LET lo == CHOOSE i \in RefNodes2D(call.ic) :
                      \A j \in RefNodes2D(call.ic) : i <= j
            hi == lo + 1
        IN  /\ NFaces >= 3 => ret.kind = "value"
            /\ ret.kind = "value" =>
                  ret.val = RDiv(RSub(phi[hi], phi[lo]),
                                 RSub(znodes[hi], znodes[lo]))

\* C10 witness: the extrapolated last face of a non-uniform axis, with a
\* non-zero slope between the last two nodes
C10_Witness ==
    /\ Computed2D
    /\ call.derivative
    /\ call.ic = NFaces
    /\ NFaces >= 4
    /\ \E i \in 1 .. (NFaces - 2) :
          RSub(zfaces[i + 1], zfaces[i]) # RSub(zfaces[i + 2], zfaces[i + 1])
    /\ ret.kind = "value"
    /\ ret.val # RZero

(* -------------------------------- C11 ---------------------------------- *)
\* C11: with CDS in _interpolate_channel at the outlet face (last face for
\* positive flow, first face for opposite flow) the node two-upstream of the
\* face takes the place of the downstream node: the references are F-1
\* (upstream) and F-2 for positive flow, 1 (upstream) and 2 for opposite
\* flow; the denominator zd - zu is never zero, and on an axis with at least
\* two nodes the call returns a value read from exactly these two nodes.
AtOutlet ==
    \/ (~call.oposite_flow /\ call.iz = NFaces)
    \/ (call.oposite_flow /\ call.iz = 1)

C11_OutletReferenceNodes ==
    (IsChannelCall /\ call.method = "CDS" /\ AtOutlet) =>
        /\ ret.refs = IF call.oposite_flow THEN <<1, 2>>
                      ELSE <<NFaces - 1, NFaces - 2>>
        /\ ret.kind # "ZeroDivisionError"
        /\ NFaces >= 3 =>
              /\ ret.kind = "value"
              /\ ret.reads = Range(ret.refs)
              /\ ret.at = Range(ret.refs)

\* C11 witness: positive flow at the last face of an axis with three or more
\* nodes, where nodes F-1 and F-2 hold different values
C11_Witness ==
    /\ IsChannelCall
    /\ call.method = "CDS"
    /\ ~call.oposite_flow
    /\ call.iz = NFaces
    /\ NFaces >= 4
    /\ ret.kind = "value"
    /\ ret.refs = <<NFaces - 1, NFaces - 2>>
    /\ phi[NFaces - 1] # phi[NFaces - 2]

(* -------------------------------- C12 ---------------------------------- *)
IsBuild == call.fn = "build"

StrictlyIncreasing(s) == \A i \in 1 .. (Len(s) - 1) : RLt(s[i], s[i + 1])

\* face coordinates not strictly increasing, or fewer than 2 faces
Malformed(cfg) == Len(cfg) < 2 \/ ~StrictlyIncreasing(cfg)

\* C12: building from face coordinates that are not strictly increasing, or
\* from fewer than 2 faces, ends in a construction error; the build never
\* completes with nodes and dz derived from such an axis.
C12_MalformedAxisRejected ==
    (IsBuild /\ Malformed(call.cv_zfaces)) => Raises(ret)

(* -------------------------------- C14 ---------------------------------- *)
\* C14: for an axis built from F strictly increasing face coordinates the
\* node view has exactly F-1 entries, node i is the midpoint of faces i and
\* i+1 and lies strictly between them, and the face and node index sets are
\* 1..F and 1..F-1.
C14_NodesBetweenFaces ==
    (IsBuild /\ ~Malformed(call.cv_zfaces)) =>
        LET F == Len(call.cv_zfaces)
        IN  /\ zfaces = call.cv_zfaces
            /\ Len(znodes) = F - 1
            /\ \A i \in 1 .. (F - 1) :
                  /\ RLt(zfaces[i], znodes[i])
                  /\ RLt(znodes[i], zfaces[i + 1])
                  /\ RAdd(znodes[i], znodes[i]) = RAdd(zfaces[i], zfaces[i + 1])
            /\ Range(IFaces(zfaces)) = 1 .. F
            /\ Range(INodes(znodes)) = 1 .. (F - 1)

\* C14 witness: a completed build of a non-uniform axis with four faces
C14_Witness ==
    /\ IsBuild
    /\ ~Malformed(call.cv_zfaces)
    /\ ret.kind = "built"
    /\ Len(zfaces) = 4
    /\ Len(znodes) = 3
    /\ Dz(zfaces, 1) # Dz(zfaces, 2)

(* -------------------------------- C13 ---------------------------------- *)
OutOfRangeCall ==
    \/ (IsChannelCall /\ call.iz \notin 1 .. NFaces)
    \/ (Is2DCall /\ call.ic \notin 1 .. NFaces)

\* C13: a call of _interpolate_channel or _interpolate_2D with a face index
\* outside 1..F raises, for every scheme, flow direction and boundary
\* specifier; it never returns a value or nothing.
C13_OutOfRangeRaises == OutOfRangeCall => Raises(ret)

(* -------------------------------- C15 ---------------------------------- *)
\* the same sequence in reversed order
MirrorSeq(s) == [i \in 1 .. Len(s) |-> s[Len(s) + 1 - i]]

\* the axis with coordinates z -> 1 - z, in increasing order again
MirrorAxis(faces) ==
    [i \in 1 .. Len(faces) |-> RSub(ROne, faces[Len(faces) + 1 - i])]

\* the last 2-D call repeated at the mirrored face of the mirrored axis,
\* node values reversed and boundary specifiers swapped
Mirrored2D ==
    Interpolate2D(NFaces + 1 - call.ic, IFaces(zfaces),
                  BuildNodes(MirrorAxis(zfaces)), MirrorAxis(zfaces),
                  MirrorSeq(phi), call.phi_bound_1, call.phi_bound_0,
                  call.derivative, call.method)

\* C15 (as claimed): for any axis, node values and boundary specifiers, the
\* derivative-mode result of _interpolate_2D at face f is minus the
\* derivative-mode result at the mirrored face of the mirrored axis.
C15_MirrorNegatesDerivative ==
    (Is2DCall /\ call.method = "CDS" /\ call.derivative
        /\ call.ic \in 1 .. NFaces /\ ret.kind = "value") =>
        /\ Mirrored2D.kind = "value"
        /\ ret.val = RSub(RZero, Mirrored2D.val)

\* C15 (amended): wherever the derivative is computed from nodes (interior
\* faces, and boundary faces whose specifier is EXTRAPOLATE) the mirrored call
\* ends the same way and a returned value is minus the mirrored value; at a
\* boundary face with a literal specifier both calls return that literal
\* unchanged, so the two results are equal and not negated.
C15_MirrorNegatesComputedDerivative ==
    (Is2DCall /\ call.method = "CDS" /\ call.derivative
        /\ call.ic \in 1 .. NFaces) =>
        /\ Mirrored2D.kind = ret.kind
        /\ (Computed2D /\ ret.kind = "value") =>
              ret.val = RSub(RZero, Mirrored2D.val)
        /\ ~Computed2D =>
              /\ ret.kind = "value"
              /\ ret.val = Mirrored2D.val

\* C15 witness: the extrapolated first face of a non-uniform axis with a
\* non-zero slope, whose mirror image is the extrapolated last face
C15_Witness ==
    /\ Computed2D
    /\ call.derivative
    /\ call.ic = 1
    /\ NFaces >= 4
    /\ MirrorAxis(zfaces) # zfaces
    /\ ret.kind = "value"
    /\ ret.val # RZero
    /\ Mirrored2D.val = RSub(RZero, ret.val)

(* -------------------------------- C16 ---------------------------------- *)
\* C16: on faces [0, 0.25, 0.5, 0.75, 1] (nodes 0.125, 0.375, 0.625, 0.875)
\* with node values [10, 20, 30, 40], CDS at the interior face at coordinate
\* 0.5, between the nodes at 0.375 and 0.625, uses lambda = 0.5 and returns 25.
C16_ScenarioCentral ==
    (IsChannelCall /\ call.method = "CDS" /\ phi = ScenarioField
        /\ call.iz \in 1 .. NFaces /\ zfaces[call.iz] = Rat(1, 2)) =>
        /\ znodes = <<Rat(1, 8), Rat(3, 8), Rat(5, 8), Rat(7, 8)>>
        /\ ret.kind = "value"
        /\ ret.reads = {2, 3}
        /\ ret.w = <<Rat(1, 2), Rat(1, 2)>>
        /\ ret.val = RInt(25)

\* C16 witness: the scenario call for positive flow; the face at coordinate
\* 0.5 is the third face
C16_Witness ==
    /\ IsChannelCall
    /\ call.method = "CDS"
    /\ ~call.oposite_flow
    /\ phi = ScenarioField
    /\ call.iz = 3
    /\ zfaces[call.iz] = Rat(1, 2)
    /\ ret.val = RInt(25)

(* -------------------------------- C17 ---------------------------------- *)
\* C17: _interpolate_2D in derivative mode at the first face with
\* phi_bound_0 = EXTRAPOLATE, the first two nodes at 0.125 and 0.375 holding
\* 100 and 120, returns (120 - 100) / (0.375 - 0.125) = 80.
C17_ScenarioDerivative ==
    (Is2DCall /\ call.method = "CDS" /\ call.derivative /\ call.ic = 1
        /\ call.phi_bound_0 = EXTRAPOLATE
        /\ phi[1] = RInt(100) /\ phi[2] = RInt(120)
        /\ znodes[1] = Rat(1, 8) /\ znodes[2] = Rat(3, 8)) =>
        /\ ret.kind = "value"
        /\ ret.val = RInt(80)

\* C17 witness: the scenario call with a third node value that is not on
\* the line through the first two
C17_Witness ==
    /\ Is2DCall
    /\ call.method = "CDS"
    /\ call.derivative
    /\ call.ic = 1
    /\ call.phi_bound_0 = EXTRAPOLATE
    /\ phi[1] = RInt(100)
    /\ phi[2] = RInt(120)
    /\ phi[3] = RInt(0)
    /\ ret.val = RInt(80)

(* -------------------------------- C18 ---------------------------------- *)
\* C18: the interpolators are pure: no call (and no return from a call)
\* changes the face or node coordinates, the index sets or the node values,
\* so a call repeated any number of times, in any order, starts from the
\* same data and returns the same result.
C18_CallsLeaveDataUnchanged ==
    [][/\ zfaces' = zfaces
       /\ znodes' = znodes
       /\ phi' = phi
       /\ IFaces(zfaces') = IFaces(zfaces)
       /\ INodes(znodes') = INodes(znodes)]_vars

\* C18 witness: a call that read two node values and two node coordinates
\* and combined them
C18_Witness ==
    /\ IsChannelCall
    /\ ret.kind = "value"
    /\ ret.src = "blend"
    /\ Cardinality(ret.reads) = 2
    /\ Cardinality(ret.at) = 2
    /\ ret.val \notin Range(phi)

(* -------------------------------- C19 ---------------------------------- *)
\* what a call did apart from the values it handled: how it ended, which
\* branch produced the result, which indices went to nodes.at and to
\* phi_func, the reference nodes and the weights
Path(r) ==
    [kind |-> r.kind, src |-> r.src, at |-> r.at, reads |-> r.reads,
     w |-> r.w, refs |-> r.refs]

\* a boundary specifier of the same kind with another literal value
OtherBound(b) == IF b.cls = "expr" THEN Literal(RZero) ELSE b

\* the last call repeated with the same face index, scheme, direction, kind
\* of boundary specifiers, derivative flag and axis, and with every node
\* value, phi_inlet and literal bound replaced by zero
SameCallOtherValues ==
    IF IsChannelCall
    THEN InterpolateChannel(call.iz, IFaces(zfaces), znodes, zfaces,
                            NodeVars(znodes), RZero, call.method,
                            call.oposite_flow)
    ELSE Interpolate2D(call.ic, IFaces(zfaces), znodes, zfaces,
                       NodeVars(znodes), OtherBound(call.phi_bound_0),
                       OtherBound(call.phi_bound_1), call.derivative,
                       call.method)

\* C19: the branch taken, the node indices read and the weights applied do
\* not depend on the node values, on phi_inlet or on the value of a literal
\* bound: every call takes the same path as the same call on an all-zero
\* field, hence any two calls differing only in those values take the same
\* path.
C19_PathIndependentOfValues ==
    (IsChannelCall \/ Is2DCall) => Path(ret) = Path(SameCallOtherValues)

\* C19 witness: a CDS call on a field whose values give another result than
\* the all-zero field, along the same path
C19_Witness ==
    /\ Is2DCall
    /\ ~call.derivative
    /\ ret.kind = "value"
    /\ ret.src = "blend"
    /\ phi # NodeVars(znodes)
    /\ ret.val # SameCallOtherValues.val
    /\ Path(ret) = Path(SameCallOtherValues)

(* -------------------------------- C20 ---------------------------------- *)
\* the last call obtained a boundary face value by extrapolation
ExtrapolatedBoundary ==
    \/ (IsChannelCall /\ call.method = "CDS" /\ AtOutlet)
    \/ (Computed2D /\ ~call.derivative /\ call.ic \in {1, NFaces})

\* C20: a boundary face value obtained by extrapolation (CDS at the outlet
\* face of _interpolate_channel; value mode with EXTRAPOLATE at the first or
\* last face of _interpolate_2D) is the value at the face coordinate of the
\* straight line through the two reference nodes.
C20_BoundaryExtrapolationLinear ==
    (ExtrapolatedBoundary /\ ret.kind = "value") =>
        LET a == ret.refs[1]
            b == ret.refs[2]
            f == IF IsChannelCall THEN call.iz ELSE call.ic
        IN  ret.val = LineAt(znodes[a], phi[a], znodes[b], phi[b], zfaces[f])

(* -------------------------------- C21 ---------------------------------- *)
\* C21: on every axis with two or more faces, for every face 1..F, both
\* directions, UDS and CDS, every boundary specifier and both modes, each
\* node index handed to nodes.at or phi_func lies in 1..F-1 and the call
\* completes without an index error.
C21_NodeIndicesInRange ==
    (/\ IsChannelCall \/ Is2DCall
     /\ call.method \in {"UDS", "CDS"}
     /\ (IF IsChannelCall THEN call.iz ELSE call.ic) \in 1 .. NFaces) =>
        /\ (ret.at \cup ret.reads) \subseteq 1 .. (NFaces - 1)
        /\ ret.kind \notin {"IndexError", "KeyError"}

(* -------------------------------- C22 ---------------------------------- *)
\* node index i of an axis is node index F - i of the mirrored axis
MirrorNode(i) == NFaces - i

\* the last channel call repeated with the other flow direction at the
\* mirrored face of the mirrored axis, node values reversed, same phi_inlet
MirroredChannel ==
    InterpolateChannel(NFaces + 1 - call.iz, IFaces(zfaces),
                       BuildNodes(MirrorAxis(zfaces)), MirrorAxis(zfaces),
                       MirrorSeq(phi), call.phi_inlet, call.method,
                       ~call.oposite_flow)

\* C22: for UDS and CDS, _interpolate_channel with oposite_flow=True at face
\* f ends as oposite_flow=False does at face F+1-f of the mirrored axis
\* (coordinates z -> 1-z, node values reversed, same phi_inlet): the same
\* outcome, the same value from the same source, the same weights, and the
\* mirrored nodes read.
C22_OppositeFlowIsMirror ==
    (IsChannelCall /\ call.oposite_flow /\ call.method \in {"UDS", "CDS"}
        /\ call.iz \in 1 .. NFaces) =>
        LET m == MirroredChannel
        IN  /\ m.kind = ret.kind
            /\ m.val = ret.val
            /\ m.src = ret.src
            /\ m.w = ret.w
            /\ m.reads = {MirrorNode(i) : i \in ret.reads}
            /\ m.at = {MirrorNode(i) : i \in ret.at}
            /\ m.refs = [k \in DOMAIN ret.refs |-> MirrorNode(ret.refs[k])]

\* C22 witness: opposite flow, CDS, an interior face of a non-uniform axis
\* whose two neighbouring nodes hold different values and get unequal weights
C22_Witness ==
    /\ IsChannelCall
    /\ call.oposite_flow
    /\ call.method = "CDS"
    /\ ChannelInterior
    /\ ret.kind = "value"
    /\ ret.src = "blend"
    /\ ret.w[1] # ret.w[2]
    /\ phi[call.iz] # phi[call.iz - 1]
    /\ MirroredChannel.val = ret.val
    /\ MirrorAxis(zfaces) # zfaces

(* -------------------------------- C23 ---------------------------------- *)
\* the last 2-D call is at a boundary face whose specifier is a literal
LiteralFace ==
    /\ Is2DCall
    /\ call.method = "CDS"
    /\ \/ (call.ic = 1 /\ call.phi_bound_0.cls = "expr")
       \/ (call.ic = NFaces /\ call.phi_bound_1.cls = "expr")

\* the literal the last call has to return: phi_bound_0 is looked at first
LiteralOf ==
    IF call.ic = 1 /\ call.phi_bound_0.cls = "expr"
    THEN call.phi_bound_0.v
    ELSE call.phi_bound_1.v

\* the last 2-D call repeated with the derivative flag flipped
OtherMode2D ==
    Interpolate2D(call.ic, IFaces(zfaces), znodes, zfaces, phi,
                  call.phi_bound_0, call.phi_bound_1, ~call.derivative,
                  call.method)

\* C23: in derivative mode too, a literal boundary specifier at the first or
\* last face is returned unchanged, no node value and no coordinate is read,
\* and the result is the one the value mode gives at that face.
C23_LiteralReturnedInDerivativeMode ==
    (LiteralFace /\ call.derivative) =>
        /\ ret.kind = "value"
        /\ ret.val = LiteralOf
        /\ ret.src \in {"phi_bound_0", "phi_bound_1"}
        /\ ret.reads = {}
        /\ ret.at = {}
        /\ OtherMode2D = ret

\* C23 witness: derivative mode at the first face of an axis whose first two
\* nodes hold different values, so that the slope there is not zero, with a
\* literal lower bound that no slope of the field equals
C23_Witness ==
    /\ LiteralFace
    /\ call.derivative
    /\ call.ic = 1
    /\ NFaces >= 3
    /\ phi[1] # phi[2]
    /\ ret.val = call.phi_bound_0.v
    /\ ret.val # Slope(phi[1], phi[2], znodes[1], znodes[2])
    /\ ret.val # Slope(phi[2], phi[1], znodes[2], znodes[1])

(* -------------------------------- C27 ---------------------------------- *)
\* izfout: the face index the outlet expressions of the channel are taken at
Izfout(ifaces, oposite_flow) ==
    IF oposite_flow THEN First(ifaces) ELSE Last(ifaces)

\* the last channel call evaluated the face of the outlet expressions
AtIzfout ==
    /\ IsChannelCall
    /\ call.iz = Izfout(IFaces(zfaces), call.oposite_flow)

\* C27: the outlet expressions are taken at the first face for opposite flow
\* and at the last face otherwise; on every axis with two or more faces that
\* face is not the inlet face, and what is returned there is a quantity
\* interpolated from node values, never phi_inlet.
C27_OutletIsInterpolatedNodeQuantity ==
    (AtIzfout /\ call.method \in {"UDS", "CDS"}) =>
        /\ call.iz = IF call.oposite_flow THEN 1 ELSE NFaces
        /\ ~AtInlet
        /\ ret.src # "phi_inlet"
        /\ ret.kind = "value"
        /\ ret.reads # {}
        /\ ret.reads \subseteq 1 .. (NFaces - 1)

(* -------------- SofcElectrodeData.build, SofcElectrolyteData.build ------ *)
Units == {"SofcElectrode", "SofcElectrolyte"}

\* the optional configuration entries, TRUE for given and FALSE for None;
\* the electrolyte declares qflux_x0 only
SectionOptions(unit) ==
    {o \in [qflux_x0 : BOOLEAN, channel_tempeature : BOOLEAN,
            channel_htc : BOOLEAN] :
        unit = "SofcElectrolyte" =>
            (~o.channel_tempeature /\ ~o.channel_htc)}

\* the sets of a 2-D section: faces from the configuration, nodes midway
SectionSets(cv_xfaces, cv_zfaces) ==
    LET xf == SetInit(cv_xfaces)
        zf == SetInit(cv_zfaces)
    IN  [xfaces |-> xf, xnodes |-> SetInit(BuildNodes(xf)),
         zfaces |-> zf, znodes |-> SetInit(BuildNodes(zf))]

\* the rule of the Expression dx over ixnodes
Dx(b, ix) ==
    IF ValidAt(b.zfaces, ix + 1) /\ ValidAt(b.zfaces, ix)
    THEN [kind |-> "value",
          val |-> RSub(At(b.zfaces, ix + 1), At(b.zfaces, ix))]
    ELSE [kind |-> "IndexError", val |-> NoVal]

\* the optional components that exist on the block once the configuration
\* has been looked at
OptionalComponents(unit, o) ==
    IF unit = "SofcElectrolyte"
    THEN {"qflux_x0"}
    ELSE IF o.channel_tempeature /\ o.channel_htc /\ o.qflux_x0
    THEN {"channel_htc", "channel_tempeature", "qflux_x0"}
    ELSE {}

\* the component the rule of qxflux reads at ixfaces.first()
QxfluxReadsAtFirst == {"qflux_x0"}

\* the x-node whose temperature each literal of dTdx reads
DTdxBoundNode0 == 1
DTdxBoundNode1 == 1

\* phi_bound_0 and phi_bound_1 of dTdx under node temperatures T along x
\* and boundary temperatures Tx0, Tx1
DTdxBound0(b, T, Tx0) ==
    RDiv(RSub(Tx0, T[DTdxBoundNode0]),
         RSub(At(b.xfaces, 1), At(b.xnodes, 1)))
DTdxBound1(b, T, Tx1) ==
    RDiv(RSub(T[DTdxBoundNode1], Tx1),
         RSub(Last(b.xnodes), Last(b.xfaces)))

\* the rule of the Expression dTdx at x-face ix
DTdx(b, T, Tx0, Tx1, ix) ==
    Interpolate2D(ix, IFaces(b.xfaces), b.xnodes, b.xfaces, T,
                  Literal(DTdxBound0(b, T, Tx0)),
                  Literal(DTdxBound1(b, T, Tx1)), TRUE, "CDS")

\* the part of build that sets up the axes, dx, dTdx, the optional
\* components and qxflux, in source order; the first rule that raises
\* ends the build
BuildSection(unit, cv_xfaces, cv_zfaces, o, T, Tx0, Tx1) ==
    LET b == SectionSets(cv_xfaces, cv_zfaces)
        ixnodes == 1 .. Len(b.xnodes)
        dx == [ix \in ixnodes |-> Dx(b, ix)]
        dxOk == \A ix \in ixnodes : dx[ix].kind = "value"
        comps == OptionalComponents(unit, o)
        kind == IF ~dxOk THEN "IndexError"
                ELSE IF ~(QxfluxReadsAtFirst \subseteq comps)
                THEN "AttributeError"
                ELSE "built"
    IN  [kind |-> kind, sets |-> b, dx |-> dx,
         dTdx |-> IF dxOk
                  THEN [ix \in 1 .. Len(b.xfaces) |->
                           DTdx(b, T, Tx0, Tx1, ix)]
                  ELSE <<>>,
         components |-> IF dxOk THEN comps ELSE {},
         qxfluxBuilt |-> dxOk /\ QxfluxReadsAtFirst \subseteq comps]

\* boundary temperatures the expressions are evaluated under
BoundaryTemperatures == {RInt(-1), RInt(5)}

\* SofcElectrodeData.build / SofcElectrolyteData.build on a fresh block; the
\* expressions are recorded by their values under the node temperatures phi
Build2D ==
    /\ call = NoCall
    /\ zfaces = <<>>
    /\ \E unit \in Units, cv_xfaces \in Axes, cv_zfaces \in Axes,
          Tx0 \in BoundaryTemperatures, Tx1 \in BoundaryTemperatures :
        \E o \in SectionOptions(unit), T \in Fields(Len(cv_xfaces) - 1) :
            \E r \in {BuildSection(unit, cv_xfaces, cv_zfaces, o, T, Tx0, Tx1)} :
                /\ call' = [fn |-> "build2D", unit |-> unit,
                            cv_xfaces |-> cv_xfaces, cv_zfaces |-> cv_zfaces,
                            options |-> o, temperature_x0 |-> Tx0,
                            temperature_x1 |-> Tx1]
                /\ zfaces' = r.sets.zfaces
                /\ znodes' = r.sets.znodes
                /\ phi' = T
                /\ ret' = Result(r.kind, r, "-", {}, {}, <<>>, <<>>)
                /\ UNCHANGED blk

Next2D == Build2D \/ Return

Spec2D == InitBuild /\ [][Next2D]_vars

(* -------------------------------- C24 ---------------------------------- *)
IsBuild2D == call.fn = "build2D"
NXFaces == Len(call.cv_xfaces)
NXNodes == NXFaces - 1

\* C24: in the electrode and the electrolyte, for every pair of x- and
\* z-axes, dx[ix] is xfaces[ix+1] - xfaces[ix] at every x-node ix.
C24_DxIsXFaceSpacing ==
    IsBuild2D =>
        \A ix \in 1 .. NXNodes :
            /\ ret.val.dx[ix].kind = "value"
            /\ ret.val.dx[ix].val =
                  RSub(call.cv_xfaces[ix + 1], call.cv_xfaces[ix])

(* -------------------------------- C25 ---------------------------------- *)
\* C25: for every combination of qflux_x0, channel_tempeature and
\* channel_htc (given or None) of the electrode, whenever build comes to
\* the rule of qxflux, every component that rule reads at the first x-face
\* exists on the block.
C25_QxfluxComponentsDefined ==
    (IsBuild2D /\ call.unit = "SofcElectrode"
        /\ \A ix \in 1 .. NXNodes : ret.val.dx[ix].kind = "value") =>
        /\ QxfluxReadsAtFirst \subseteq ret.val.components
        /\ ret.kind # "AttributeError"

(* -------------------------------- C26 ---------------------------------- *)
\* C26: wherever dTdx is built, its value at the last x-face is the literal
\* (T[last x-node] - temperature_x1) / (last x-node - last x-face), and at
\* the first x-face (temperature_x0 - T[first x-node]) /
\* (first x-face - first x-node).
C26_DTdxBoundaryLiterals ==
    (IsBuild2D /\ ret.val.dTdx # <<>>) =>
        LET xf == ret.val.sets.xfaces
            xn == ret.val.sets.xnodes
        IN  /\ ret.val.dTdx[1].kind = "value"
            /\ ret.val.dTdx[1].val =
                  RDiv(RSub(call.temperature_x0, phi[1]),
                       RSub(xf[1], xn[1]))
            /\ ret.val.dTdx[NXFaces].kind = "value"
            /\ ret.val.dTdx[NXFaces].val =
                  RDiv(RSub(phi[NXNodes], call.temperature_x1),
                       RSub(xn[NXNodes], xf[NXFaces]))

(* ---------------------- _set_if_unfixed, initialize -------------------- *)
\* a scalar pyomo variable: its value and its fixed flag
VarData(value, fixed) == [value |-> value, fixed |-> fixed]

SetIfUnfixed_always(v, val) == [v EXCEPT !.value = val]
SetIfUnfixed(v, val) == IF ~v.fixed THEN [v EXCEPT !.value = val] ELSE v

\* a variable as initialize finds it: left free at its construction value,
\* or fixed by the caller at a value of the caller's
FreeValue == RZero
FixedValue == RInt(3)
VarStates == {VarData(FreeValue, FALSE), VarData(FixedValue, TRUE)}

\* the variables of a channel with n nodes that the guesses for flow and
\* velocity go through (the other families are set in the same two ways:
\* from an inlet quantity, or from variables set earlier at the same node)
ChannelBlocks(n) ==
    [unit : {"SofcChannel"}, temperature_outlet : VarStates,
     flow_mol : [1 .. n -> VarStates], velocity : [1 .. n -> VarStates]]

\* the temperature and pressure of one column of electrode nodes
ElectrodeBlocks(n) ==
    [unit : {"SofcElectrode"},
     temperature : [1 .. n -> VarStates], pressure : [1 .. n -> VarStates]]

\* volume_molar / flow_area, and _constR * mol_dens, at the guess point
VelocityFactor == RInt(2)
PressureFactor == RInt(2)

\* the loop of SofcChannelData.initialize over the nodes
ChannelGuesses(b, temperature_inlet, flow_mol_inlet) ==
    LET flow == [iz \in DOMAIN b.flow_mol |->
                    SetIfUnfixed(b.flow_mol[iz], flow_mol_inlet)]
    IN  [b EXCEPT
            !.temperature_outlet =
                SetIfUnfixed(b.temperature_outlet, temperature_inlet),
            !.flow_mol = flow,
            !.velocity = [iz \in DOMAIN b.velocity |->
                SetIfUnfixed(b.velocity[iz],
                             RMul(flow[iz].value, VelocityFactor))]]

\* the loop of SofcElectrodeData.initialize over the nodes;
\* temperature_guess may be None (NoVal)
ElectrodeGuesses(b, temperature_guess) ==
    LET temp == [iz \in DOMAIN b.temperature |->
                    IF temperature_guess # NoVal
                    THEN SetIfUnfixed(b.temperature[iz], temperature_guess)
                    ELSE b.temperature[iz]]
    IN  [b EXCEPT
            !.temperature = temp,
            !.pressure = [iz \in DOMAIN b.pressure |->
                SetIfUnfixed(b.pressure[iz],
                             RMul(PressureFactor, temp[iz].value))]]

\* values a solve may leave in the variables it is free to move
SolverValues == {RInt(1), RInt(9)}

\* the solver moves unfixed variables only
Solved(v, val) == IF v.fixed THEN v ELSE [v EXCEPT !.value = val]

InitInitialize ==
    /\ zfaces \in Axes
    /\ znodes = BuildNodes(zfaces)
    /\ phi = NodeVars(znodes)
    /\ call = NoCall
    /\ ret = NoResult
    /\ blk \in ChannelBlocks(Len(zfaces) - 1)
               \cup ElectrodeBlocks(Len(zfaces) - 1)

\* SofcChannelData.initialize up to the solve
InitializeChannel ==
    /\ call = NoCall
    /\ blk.unit = "SofcChannel"
    /\ \E temperature_inlet \in InletValues, flow_mol_inlet \in InletValues :
        /\ call' = [fn |-> "initialize", pc |-> "solve",
                    temperature_inlet |-> temperature_inlet,
                    flow_mol_inlet |-> flow_mol_inlet]
        /\ blk' = ChannelGuesses(blk, temperature_inlet, flow_mol_inlet)
    /\ UNCHANGED <<zfaces, znodes, phi, ret>>

\* solver.solve(self, tee=True)
InitializeSolve ==
    /\ call.fn = "initialize"
    /\ call.pc = "solve"
    /\ \E t \in SolverValues, f \in SolverValues, v \in SolverValues :
        blk' = [blk EXCEPT
                  !.temperature_outlet = Solved(blk.temperature_outlet, t),
                  !.flow_mol = [iz \in DOMAIN blk.flow_mol |->
                                   Solved(blk.flow_mol[iz], f)],
                  !.velocity = [iz \in DOMAIN blk.velocity |->
                                   Solved(blk.velocity[iz], v)]]
    /\ call' = [call EXCEPT !.pc = "done"]
    /\ UNCHANGED <<zfaces, znodes, phi, ret>>

\* SofcElectrodeData.initialize, which ends with its loop
InitializeElectrode ==
    /\ call = NoCall
    /\ blk.unit = "SofcElectrode"
    /\ \E temperature_guess \in InletValues \cup {NoVal} :
        /\ call' = [fn |-> "initialize", pc |-> "done",
                    temperature_guess |-> temperature_guess]
        /\ blk' = ElectrodeGuesses(blk, temperature_guess)
    /\ UNCHANGED <<zfaces, znodes, phi, ret>>

NextInitialize == InitializeChannel \/ InitializeSolve \/ InitializeElectrode

SpecInitialize == InitInitialize /\ [][NextInitialize]_vars

(* -------------------------------- C28 ---------------------------------- *)
\* what one _set_if_unfixed(v, val) is claimed to leave in the variable
\* that was v before and is w after
SetOrKept(v, w, val) ==
    IF v.fixed THEN w = v ELSE (w.value = val /\ ~w.fixed)

\* the step that runs the guess loop of an initialize method
GuessStep == call = NoCall /\ call'.fn = "initialize"

\* C28: _set_if_unfixed leaves a fixed variable's value and flag as they
\* are and gives an unfixed variable the value of val, evaluated when the
\* call is made, without fixing it; so across the guess loop of the channel
\* and of the electrode every variable fixed beforehand keeps its value.
C28_FixedVariablesKeepValues ==
    [][GuessStep =>
        /\ blk'.unit = blk.unit
        /\ blk.unit = "SofcChannel" =>
              /\ SetOrKept(blk.temperature_outlet, blk'.temperature_outlet,
                           call'.temperature_inlet)
              /\ \A iz \in DOMAIN blk.flow_mol :
                    /\ SetOrKept(blk.flow_mol[iz], blk'.flow_mol[iz],
                                 call'.flow_mol_inlet)
                    /\ SetOrKept(blk.velocity[iz], blk'.velocity[iz],
                                 RMul(blk'.flow_mol[iz].value,
                                      VelocityFactor))
        /\ blk.unit = "SofcElectrode" =>
              \A iz \in DOMAIN blk.temperature :
                    /\ IF call'.temperature_guess = NoVal
                       THEN blk'.temperature[iz] = blk.temperature[iz]
                       ELSE SetOrKept(blk.temperature[iz],
                                      blk'.temperature[iz],
                                      call'.temperature_guess)
                    /\ SetOrKept(blk.pressure[iz], blk'.pressure[iz],
                                 RMul(PressureFactor,
                                      blk'.temperature[iz].value))]_vars

\* C28 witness: the channel after its guess loop and before the solve, with
\* a fixed flow at node 1 that kept a value other than the inlet flow, a free
\* flow at node 2 that took the inlet flow, and a free velocity at node 1
\* computed from the fixed flow
C28_Witness ==
    /\ call.fn = "initialize"
    /\ call.pc = "solve"
    /\ blk.unit = "SofcChannel"
    /\ Len(blk.flow_mol) >= 2
    /\ blk.flow_mol[1] = VarData(FixedValue, TRUE)
    /\ FixedValue # call.flow_mol_inlet
    /\ blk.flow_mol[2] = VarData(call.flow_mol_inlet, FALSE)
    /\ blk.velocity[1] = VarData(RMul(FixedValue, VelocityFactor), FALSE)
    /\ blk.velocity[2].fixed

(* ------------------------ contour_grid_data, stitch -------------------- *)
\* a Python list is a function of the positions 0 .. n-1; list objects live
\* in a heap, the sequence of the lists made so far, and are referred to by
\* their position in it; None is reference 0 and the
\* working lists data_z, data_x, data_w are references 1, 2, 3
NoneRef == 0
DataZ == 1
DataX == 2
DataW == 3

\* copy.copy(list): a new list object with the same entries
CopyList_alias(heap, r) == [heap |-> heap, ref |-> r]
CopyList(heap, r) == [heap |-> Append(heap, heap[r]), ref |-> Len(heap) + 1]

\* one pass of the loop over znodes (zn): the inner loop over xnodes (xn)
\* fills the working lists, then the three grids get copies of them;
\* st.rows counts the passes made
FillRow(st, var, t, it, iz, xn, z) ==
    LET nx == Len(xn)
        filled == [st.heap EXCEPT
                     ![DataZ] = [ix \in 0 .. (nx - 1) |-> z],
                     ![DataX] = [ix \in 0 .. (nx - 1) |-> xn[ix + 1]],
                     ![DataW] = [ix \in 0 .. (nx - 1) |->
                                    var[<<t, ix + 1, iz + 1>>]]]
        cz == CopyList(filled, DataZ)
        cx == CopyList(cz.heap, DataX)
        cw == CopyList(cx.heap, DataW)
    IN  [heap |-> cw.heap,
         zg |-> [st.zg EXCEPT ![it][iz] = cz.ref],
         xg |-> [st.xg EXCEPT ![it][iz] = cx.ref],
         hg |-> [st.hg EXCEPT ![it][iz] = cw.ref],
         rows |-> st.rows + 1]

\* the two outer loops, pass k being position k % nz of time position
\* k \div nz
RECURSIVE FillRows(_, _, _, _, _)
FillRows(st, var, time, xn, zn) ==
    LET nz == Len(zn)
        k == st.rows
    IN  IF k >= Len(time) * nz
        THEN st
        ELSE FillRows(FillRow(st, var, time[(k \div nz) + 1], k \div nz,
                              k % nz, xn, zn[(k % nz) + 1]),
                      var, time, xn, zn)

ContourGridData(var, time, xn, zn) ==
    LET nx == Len(xn)
        nz == Len(zn)
        grid == [it \in 0 .. (Len(time) - 1) |->
                    [iz \in 0 .. (nz - 1) |-> NoneRef]]
        none == [ix \in 0 .. (nx - 1) |-> NoVal]
        start == [heap |-> <<none, none, none>>,
                  zg |-> grid, xg |-> grid, hg |-> grid, rows |-> 0]
        keys == {<<time[it], ix, iz>> :
                    it \in 1 .. Len(time), ix \in 1 .. nx, iz \in 1 .. nz}
    IN  IF keys \subseteq DOMAIN var
        THEN [kind |-> "value"] @@ FillRows(start, var, time, xn, zn)
        ELSE [kind |-> "KeyError"] @@ start

\* the argument kinds of stitch: a time set, or a component indexed by time
TimeSet(members) == [cls |-> "Set", members |-> members]
TimeIndexed(index, values) ==
    [cls |-> "Component", index |-> index, values |-> values]

\* what one argument adds to the list
Contribution(v) ==
    IF v.cls = "Set"
    THEN v.members
    ELSE [i \in 1 .. Len(v.index) |-> v.values[v.index[i]]]

\* the loop over args, l being the list so far
RECURSIVE StitchFrom_prepend(_, _)
StitchFrom_prepend(l, args) ==
    IF args = <<>>
    THEN l
    ELSE StitchFrom_prepend(Contribution(Head(args)) \o l, Tail(args))
RECURSIVE StitchFrom(_, _)
StitchFrom(l, args) ==
    IF args = <<>>
    THEN l
    ELSE StitchFrom(l \o Contribution(Head(args)), Tail(args))

Stitch(args) == StitchFrom(<<>>, args)

(* --------------------------- plotting a flowsheet ---------------------- *)
\* bounds of the plotted data
MaxTimes == 3
MaxArgs == 2

\* time sets: the points 0, 1, .. of a horizon, or of a later one
TimeSets == {[i \in 1 .. n |-> RInt(i - 1)] : n \in 1 .. MaxTimes}
LaterSets == {<<RInt(10), RInt(11)>>, <<RInt(12)>>}

\* values of a variable indexed by time, x-node and z-node
FieldIds == {"mixed", "plane"}
FieldValue(id, t, ix, iz) ==
    IF id = "mixed"
    THEN RAdd(RMul(t, RInt(100)), RInt(10 * ix + iz))
    ELSE RInt(ix - iz)

\* a flowsheet with results: its time sets, x-nodes, a variable over
\* (time, ixnodes, iznodes) and a component over time
PlotBlocks(zn) ==
    {[unit |-> "flowsheet", time |-> tm, later |-> lt, xnodes |-> xn,
      var |-> [k \in {<<t, ix, iz>> : t \in {tm[i] : i \in DOMAIN tm},
                         ix \in 1 .. Len(xn), iz \in 1 .. Len(zn)} |->
                  FieldValue(id, k[1], k[2], k[3])],
      comp |-> [t \in {tm[i] : i \in DOMAIN tm} |->
                  FieldValue(id, t, 1, 1)]] :
        tm \in TimeSets, lt \in LaterSets,
        xn \in {BuildNodes(a) : a \in Axes}, id \in FieldIds}

\* the objects a caller passes to stitch, by name
StitchNames == {"time", "later", "comp"}
StitchObject(b, name) ==
    IF name = "time" THEN TimeSet(b.time)
    ELSE IF name = "later" THEN TimeSet(b.later)
    ELSE TimeIndexed(b.time, b.comp)

StitchArgs == UNION {[1 .. n -> StitchNames] : n \in 0 .. MaxArgs}

InitPlot ==
    /\ zfaces \in Axes
    /\ znodes = BuildNodes(zfaces)
    /\ phi = NodeVars(znodes)
    /\ call = NoCall
    /\ ret = NoResult
    /\ blk \in PlotBlocks(znodes)

CallContourGridData ==
    /\ call = NoCall
    /\ blk.unit = "flowsheet"
    /\ call' = [fn |-> "contour_grid_data"]
    /\ LET g == ContourGridData(blk.var, blk.time, blk.xnodes, znodes)
       IN  ret' = Result(g.kind, g, "-", {}, {}, <<>>, <<>>)
    /\ UNCHANGED <<zfaces, znodes, phi, blk>>

CallStitch ==
    /\ call = NoCall
    /\ blk.unit = "flowsheet"
    /\ \E names \in StitchArgs :
        /\ call' = [fn |-> "stitch", args |-> names]
        /\ ret' = Result("value",
                         Stitch([i \in DOMAIN names |->
                                    StitchObject(blk, names[i])]),
                         "-", {}, {}, <<>>, <<>>)
    /\ UNCHANGED <<zfaces, znodes, phi, blk>>

NextPlot == CallContourGridData \/ CallStitch \/ Return

SpecPlot == InitPlot /\ [][NextPlot]_vars

(* -------------------------------- C29 ---------------------------------- *)
IsContourCall == call.fn = "contour_grid_data"

\* the list objects that are rows of the returned grids
GridRefs(g) ==
    {g[it][iz] : it \in 0 .. (Len(blk.time) - 1),
                 iz \in 0 .. (Len(znodes) - 1)}

\* C29: for every time position it the three grids have nz rows of nx
\* entries with zg[it][iz][ix] = znodes[iz], xg[it][iz][ix] = xnodes[ix] and
\* hg[it][iz][ix] = var[t, ix+1, iz+1]; every row of every grid is a list
\* object of its own, so no row shows what was filled in after it.
C29_GridsHoldNodeData ==
    IsContourCall =>
        LET g == ret.val
            nt == Len(blk.time)
            nz == Len(znodes)
            nx == Len(blk.xnodes)
        IN  /\ ret.kind = "value"
            /\ \A grid \in {g.zg, g.xg, g.hg} :
                  /\ DOMAIN grid = 0 .. (nt - 1)
                  /\ \A it \in 0 .. (nt - 1) :
                        /\ DOMAIN grid[it] = 0 .. (nz - 1)
                        /\ \A iz \in 0 .. (nz - 1) :
                              DOMAIN g.heap[grid[it][iz]] = 0 .. (nx - 1)
            /\ \A it \in 0 .. (nt - 1), iz \in 0 .. (nz - 1),
                  ix \in 0 .. (nx - 1) :
                  /\ g.heap[g.zg[it][iz]][ix] = znodes[iz + 1]
                  /\ g.heap[g.xg[it][iz]][ix] = blk.xnodes[ix + 1]
                  /\ g.heap[g.hg[it][iz]][ix] =
                        blk.var[<<blk.time[it + 1], ix + 1, iz + 1>>]
            /\ Cardinality(GridRefs(g.zg) \cup GridRefs(g.xg)
                              \cup GridRefs(g.hg)) = 3 * nt * nz
            /\ {DataZ, DataX, DataW, NoneRef}
                  \cap (GridRefs(g.zg) \cup GridRefs(g.xg)
                           \cup GridRefs(g.hg)) = {}

\* C29 witness: two or more times, z-nodes and x-nodes, and a variable whose
\* value differs between the first and the last row and along each row
C29_Witness ==
    /\ IsContourCall
    /\ Len(blk.time) >= 2
    /\ Len(znodes) >= 2
    /\ Len(blk.xnodes) >= 2
    /\ LET g == ret.val
           first == g.heap[g.hg[0][0]]
           last == g.heap[g.hg[Len(blk.time) - 1][Len(znodes) - 1]]
       IN  /\ first[0] # last[0]
           /\ first[0] # first[1]
           /\ first[1] = blk.var[<<blk.time[1], 2, 1>>]
           /\ g.heap[g.zg[0][0]][0] # g.heap[g.zg[0][1]][0]

(* -------------------------------- C30 ---------------------------------- *)
IsStitchCall == call.fn = "stitch"

\* the arguments of a stitch call, taken from flowsheet b
ArgsOf(b, names) == [i \in DOMAIN names |-> StitchObject(b, names[i])]

\* the number of elements an argument holds
SizeOf(v) == IF v.cls = "Set" THEN Len(v.members) ELSE Len(v.index)

RECURSIVE SumSizes(_)
SumSizes(args) ==
    IF args = <<>> THEN 0 ELSE SizeOf(Head(args)) + SumSizes(Tail(args))

\* position of the first element of argument i in the stitched list, less 1
Offset(args, i) == SumSizes(SubSeq(args, 1, i - 1))

\* the step that makes a stitch call
StitchStep == call = NoCall /\ call'.fn = "stitch"

\* C30: the list stitch returns holds, argument after argument in argument
\* order, the members of a time set in set order or the values of a
\* time-indexed component in index order; its length is the sum of the
\* arguments' sizes, and every argument is after the call what it was
\* before.
C30_StitchConcatenates ==
    [][StitchStep =>
        LET args == ArgsOf(blk, call'.args)
            l == ret'.val
        IN  /\ ret'.kind = "value"
            /\ Len(l) = SumSizes(args)
            /\ \A i \in DOMAIN args :
                  \A j \in 1 .. SizeOf(args[i]) :
                      l[Offset(args, i) + j] =
                          IF args[i].cls = "Set"
                          THEN args[i].members[j]
                          ELSE args[i].values[args[i].index[j]]
            /\ ArgsOf(blk', call'.args) = args
            /\ blk' = blk]_vars

\* C30 witness: a component stitched before a later time set, the values of
\* the component differing from its time points
C30_Witness ==
    /\ IsStitchCall
    /\ call.args = <<"comp", "later">>
    /\ Len(blk.time) >= 2
    /\ Len(blk.later) = 2
    /\ Len(ret.val) = Len(blk.time) + 2
    /\ ret.val[1] = blk.comp[blk.time[1]]
    /\ ret.val[2] # blk.time[2]
    /\ ret.val[Len(blk.time) + 1] = blk.later[1]
    /\ ret.val[1] # ret.val[2]

====
